---------------------------- MODULE Spec2Model ----------------------------
(***************************************************************************)
(* A model of src/main.py: a graph of cities (City), the stack nodes of    *)
(* the search (Node) and the A* procedure a_star.                          *)
(*                                                                         *)
(* Coordinates are taken from a point set whose pairwise Euclidean         *)
(* distances are all integers (legs 5, 9, 16 against 12 give hypotenuses   *)
(* 13, 15, 20), so sqrt() in City.distance_to is exact, in the model and   *)
(* in IEEE double arithmetic alike, and every sum the search forms is an   *)
(* exactly representable integer.                                          *)
(***************************************************************************)
EXTENDS Integers, Sequences, FiniteSets, TLC

(* Number of City objects the caller constructs. *)
NumCities == 6

Cities == 1..NumCities

(* Python's None, as a parent reference and as an unset argument. *)
None == 0

(* The (latitude, longitude) the caller gives to each City. main gives    *)
(* the coordinates of eighteen Italian cities; a_star accepts any, and    *)
(* these are chosen for their integer distances.                          *)
Coordinates ==
  << <<0, 12>>, <<16, 0>>, <<-5, 0>>, <<-9, 0>>, <<0, -12>>, <<9, 0>>,
     <<0, 0>>, <<5, 0>> >>

latitude(city) == Coordinates[city][1]

longitude(city) == Coordinates[city][2]

(* The roads the caller may hand to add_neighbours, per city, in order:   *)
(* one-way roads, roads back to a city explored before, a road from a    *)
(* city to itself, and several roads into the same city.                  *)
RoadCandidates ==
  << <<2, 5, 3>>, <<4, 5>>, <<4, 1>>, <<6, 5, 4>>, <<6>>, <<4>> >>

Candidates(city) ==
  IF city <= Len(RoadCandidates) THEN RoadCandidates[city] ELSE <<>>

RECURSIVE SubSeqs(_)
(* Every list obtained from s by leaving entries out. *)
SubSeqs(s) ==
  IF s = <<>> THEN {<<>>}
  ELSE LET rest == SubSeqs(Tail(s))
       IN rest \cup {<<Head(s)>> \o r : r \in rest}

VARIABLES
  neighbours,   \* City.neighbours of every city
  connected,    \* number of cities the caller has connected so far
  pc,           \* "connect", "while", "return_path", "return_none"
  start,        \* argument of a_star
  goal,         \* argument of a_star
  nodes,        \* the Node objects held by the lists, by reference (index)
  open_list,    \* references of the candidate nodes
  closed_list,  \* references of the explored nodes
  path          \* the list a_star returns at line 68

vars == <<neighbours, connected, pc, start, goal, nodes, open_list,
          closed_list, path>>

----------------------------------------------------------------------------
(* City *)

(* sqrt of math, on the perfect squares the coordinates produce. *)
sqrt(n) == CHOOSE r \in 0..n : r * r <= n /\ (r + 1) * (r + 1) > n

distance_to(self, other) ==
  sqrt(((latitude(self) - latitude(other)) ^ 2)
       + ((longitude(self) - longitude(other)) ^ 2))

(* Node *)

Node(parent, city) ==
  [city |-> city, parent |-> parent, g |-> 0, h |-> 0, f |-> 0]

calc_heuristic(node, goal_node) == distance_to(node.city, goal_node.city)

----------------------------------------------------------------------------
(* a_star *)

goal_node == Node(None, goal)

Range(s) == {s[i] : i \in DOMAIN s}

RECURSIVE best_index(_, _, _, _)
(* Lines 49-55: the scan for the lowest f; a later node replaces the      *)
(* current one only when its f is strictly lower.                          *)
best_index(ns, open, i, current_index) ==
  IF i > Len(open) THEN current_index
  ELSE IF ns[open[i]].f < ns[open[current_index]].f
       THEN best_index(ns, open, i + 1, i)
       ELSE best_index(ns, open, i + 1, current_index)

current_index == best_index(nodes, open_list, 1, 1)

current_node == open_list[current_index]

(* Line 57: open_list.pop(current_index) *)
pop(open, index) ==
  [i \in 1..(Len(open) - 1) |-> IF i < index THEN open[i] ELSE open[i + 1]]

IsGoalAsStart(node) == node.city = start

IsGoalAsChild(node) == node.city = goal_node.city /\ node.parent # None

(* Line 60 *)
IsGoal(node) == node.city = goal_node.city

RECURSIVE parent_chain(_, _)
(* Lines 63-66: the cities from a node back to the node without parent. *)
parent_chain(ns, ref) ==
  IF ref = None THEN <<>>
  ELSE <<ns[ref].city>> \o parent_chain(ns, ns[ref].parent)

reversed(s) == [i \in 1..Len(s) |-> s[Len(s) + 1 - i]]

reconstructAs(ns, ref) == parent_chain(ns, ref)

(* Lines 63-68 *)
reconstruct(ns, ref) == reversed(parent_chain(ns, ref))

(* Lines 72-76 *)
in_closed(ns, closed, neighbour_city) ==
  \E i \in DOMAIN closed : neighbour_city = ns[closed[i]].city

in_openAs(ns, open, neighbour_city) == FALSE

(* Lines 85-88 *)
in_open(ns, open, neighbour_city) ==
  \E i \in DOMAIN open : neighbour_city = ns[open[i]].city

improveAs(node, neighbour_node, current) ==
  IF neighbour_node.g < node.g
  THEN [node EXCEPT !.g = neighbour_node.g]
  ELSE node

(* Lines 92-94 *)
improve(node, neighbour_node, current) ==
  IF neighbour_node.g < node.g
  THEN [node EXCEPT !.g = neighbour_node.g, !.parent = current]
  ELSE node

(* Lines 80-83 *)
make_neighbour(ns, current, neighbour_city) ==
  LET fresh == Node(current, neighbour_city)
      g == ns[current].g + distance_to(ns[current].city, neighbour_city)
      h == calc_heuristic(fresh, goal_node)
  IN [fresh EXCEPT !.g = g, !.h = h, !.f = g + h]

(* Lines 70-97, the body of the loop for one neighbour. st holds the      *)
(* nodes and the open list as the earlier neighbours left them.           *)
visit(st, closed, current, neighbour_city) ==
  LET neighbour_node == make_neighbour(st.ns, current, neighbour_city)
  IN IF in_closed(st.ns, closed, neighbour_city) THEN st
     ELSE IF in_open(st.ns, st.open, neighbour_city)
          THEN [st EXCEPT !.ns =
                 [r \in DOMAIN st.ns |->
                    IF r \in Range(st.open) /\ st.ns[r].city = neighbour_city
                    THEN improve(st.ns[r], neighbour_node, current)
                    ELSE st.ns[r]]]
          ELSE [ns |-> Append(st.ns, neighbour_node),
                open |-> Append(st.open, Len(st.ns) + 1)]

roadsAs(city) ==
  IF neighbours[city] = <<>> THEN <<>> ELSE <<Head(neighbours[city])>>

(* Line 70: the list the loop runs over *)
roads(city) == neighbours[city]

RECURSIVE expand(_, _, _, _)
(* Lines 70-97 *)
expand(st, closed, current, todo) ==
  IF todo = <<>> THEN st
  ELSE expand(visit(st, closed, current, Head(todo)), closed, current,
              Tail(todo))

----------------------------------------------------------------------------

Init ==
  /\ neighbours = [c \in Cities |-> <<>>]
  /\ connected = 0
  /\ pc = "connect"
  /\ start = None
  /\ goal = None
  /\ nodes = <<>>
  /\ open_list = <<>>
  /\ closed_list = <<>>
  /\ path = <<>>

(* City.add_neighbours, called by main for one city after the other. *)
add_neighbours(self, cities) ==
  /\ pc = "connect"
  /\ self = connected + 1
  /\ neighbours' = [neighbours EXCEPT ![self] = neighbours[self] \o cities]
  /\ connected' = self
  /\ UNCHANGED <<pc, start, goal, nodes, open_list, closed_list, path>>

(* Lines 42-47: a_star up to the loop. *)
a_star(s, g) ==
  /\ pc = "connect"
  /\ connected = NumCities
  /\ start' = s
  /\ goal' = g
  /\ nodes' = <<Node(None, s)>>
  /\ open_list' = <<1>>
  /\ closed_list' = <<>>
  /\ pc' = "while"
  /\ UNCHANGED <<neighbours, connected, path>>

(* Lines 48-68: an iteration that takes the goal from the open list. *)
a_star_found ==
  /\ pc = "while"
  /\ Len(open_list) > 0
  /\ IsGoal(nodes[current_node])
  /\ open_list' = pop(open_list, current_index)
  /\ closed_list' = Append(closed_list, current_node)
  /\ path' = reconstruct(nodes, current_node)
  /\ pc' = "return_path"
  /\ UNCHANGED <<neighbours, connected, start, goal, nodes>>

(* Lines 48-97: an iteration that explores another city. *)
a_star_explore ==
  /\ pc = "while"
  /\ Len(open_list) > 0
  /\ ~IsGoal(nodes[current_node])
  /\ LET closed == Append(closed_list, current_node)
         st == expand([ns |-> nodes, open |-> pop(open_list, current_index)],
                      closed, current_node, roads(nodes[current_node].city))
     IN /\ closed_list' = closed
        /\ nodes' = st.ns
        /\ open_list' = st.open
  /\ UNCHANGED <<neighbours, connected, pc, start, goal, path>>

(* Lines 48 and 98: the open list is empty. *)
a_star_none ==
  /\ pc = "while"
  /\ Len(open_list) = 0
  /\ pc' = "return_none"
  /\ UNCHANGED <<neighbours, connected, start, goal, nodes, open_list,
                 closed_list, path>>

Next ==
  \/ \E self \in Cities : \E cities \in SubSeqs(Candidates(self)) :
       add_neighbours(self, cities)
  \/ \E s \in Cities : \E g \in Cities : a_star(s, g)
  \/ a_star_found
  \/ a_star_explore
  \/ a_star_none

Spec == Init /\ [][Next]_vars

----------------------------------------------------------------------------
(* What the claims speak about. *)

searching == pc # "connect"

listed == Range(open_list) \cup Range(closed_list)

RECURSIVE Shortest(_, _)
(* Bellman-Ford over the roads: after k rounds d maps every city that k   *)
(* roads reach from start to the cheapest cost found for it.              *)
Shortest(d, k) ==
  IF k = 0 THEN d
  ELSE LET reached == DOMAIN d
           into(c) == {p \in reached : c \in Range(neighbours[p])}
           next == reached \cup {c \in Cities : into(c) # {}}
           costs(c) == (IF c \in reached THEN {d[c]} ELSE {})
                       \cup {d[p] + distance_to(p, c) : p \in into(c)}
           least(S) == CHOOSE x \in S : \A y \in S : x <= y
       IN Shortest([c \in next |-> least(costs(c))], k - 1)

FromStart == Shortest([c \in {start} |-> 0], NumCities)

RECURSIVE Closure(_)
(* The cities that chains of neighbours links reach from the set S. *)
Closure(S) ==
  LET next == S \cup {c \in Cities : \E p \in S : c \in Range(neighbours[p])}
  IN IF next = S THEN S ELSE Closure(next)

Reachable == goal \in Closure({start})

ShortestCost == FromStart[goal]

RECURSIVE PathCost(_)
PathCost(p) ==
  IF Len(p) <= 1 THEN 0
  ELSE distance_to(p[1], p[2]) + PathCost(Tail(p))

(* Position of a node in the closed list, 0 when it is not there. *)
closed_at(ref) ==
  IF ref \in Range(closed_list)
  THEN CHOOSE i \in DOMAIN closed_list : closed_list[i] = ref
  ELSE 0

(* C1: a returned path costs as little as the cheapest start-to-goal      *)
(* path of the graph.                                                      *)
C1_Optimality ==
  pc = "return_path" => PathCost(path) = ShortestCost

(* C2: a returned path begins at start, ends at goal, and each entry      *)
(* after the first is in the neighbours list of the entry before it.      *)
C2_PathValidity ==
  pc = "return_path" =>
    /\ Len(path) >= 1
    /\ path[1] = start
    /\ path[Len(path)] = goal
    /\ \A i \in 2..Len(path) : path[i] \in Range(neighbours[path[i - 1]])

C2_Witness ==
  pc = "return_path" /\ Len(path) >= 4

(* One more city is explored and the loop goes on. *)
OneMoreClosed ==
  pc' = "while" /\ Len(closed_list') = Len(closed_list) + 1

(* C3: when no chain of neighbours links leads from start to goal, the    *)
(* search never returns a path: each iteration closes one more city or,   *)
(* once the open list is empty, returns None.                             *)
C3_NoPath ==
  /\ []((searching /\ ~Reachable) =>
          /\ pc # "return_path"
          /\ (pc = "return_none" => open_list = <<>>))
  /\ [][(pc = "while" /\ ~Reachable) =>
          \/ OneMoreClosed
          \/ (open_list = <<>> /\ pc' = "return_none")]_vars

C3_Witness ==
  pc = "return_none" /\ ~Reachable /\ Len(closed_list) >= 4

ClosedOncePerCity ==
  \A i, j \in DOMAIN closed_list :
    nodes[closed_list[i]].city = nodes[closed_list[j]].city => i = j

(* C4: no city is explored twice and every iteration closes one more      *)
(* city, so the loop runs at most once per city; when goal can be reached *)
(* from start the loop never finds the open list empty and never returns  *)
(* None: it goes on until it returns a path.                              *)
C4_Completeness ==
  /\ [](ClosedOncePerCity /\ Len(closed_list) <= NumCities)
  /\ []((searching /\ Reachable) =>
          /\ pc # "return_none"
          /\ (pc = "while" => open_list # <<>>))
  /\ [][(pc = "while" /\ Reachable) =>
          \/ OneMoreClosed
          \/ (pc' = "return_path"
              /\ Len(closed_list') = Len(closed_list) + 1)]_vars

C4_Witness ==
  pc = "return_path" /\ Len(closed_list) = Cardinality(Cities) /\ Len(path) >= 3

(* C5: with start = goal the search returns the one-element path          *)
(* <<start>>, of cost 0, whatever the neighbours of that city.            *)
C5_TrivialPath ==
  /\ []((searching /\ start = goal) =>
          /\ pc # "return_none"
          /\ (pc = "return_path" =>
                (path = <<start>> /\ PathCost(path) = 0)))
  /\ [][(pc = "while" /\ start = goal) => pc' = "return_path"]_vars

C5_Witness ==
  pc = "return_path" /\ start = goal /\ Len(neighbours[start]) >= 2

(* C6: every node in the open or the closed list has f = g + h.           *)
C6_CostBookkeeping ==
  \A r \in listed : nodes[r].f = nodes[r].g + nodes[r].h

(* C7: when an explored city has a neighbour that was closed before, the  *)
(* cost of reaching that neighbour through the explored city is not       *)
(* below the g of the neighbour's closed node.                            *)
C7_NoReopeningNeeded ==
  \A i \in DOMAIN closed_list : \A j \in 1..i :
    LET current == nodes[closed_list[i]]
        seen == nodes[closed_list[j]]
    IN (/\ ~IsGoal(current)
        /\ seen.city \in Range(roads(current.city))
        /\ \A k \in 1..(j - 1) : nodes[closed_list[k]].city # seen.city)
       => current.g + distance_to(current.city, seen.city) >= seen.g

OneEntryPerCity ==
  \A r1, r2 \in listed : nodes[r1].city = nodes[r2].city => r1 = r2

NoDuplicateRefs ==
  /\ \A i, j \in DOMAIN open_list : open_list[i] = open_list[j] => i = j
  /\ \A i, j \in DOMAIN closed_list : closed_list[i] = closed_list[j] => i = j
  /\ Range(open_list) \cap Range(closed_list) = {}

ClosedCities == {nodes[r].city : r \in Range(closed_list)}

OpenCities == {nodes[r].city : r \in Range(open_list)}

(* C8: a city has at most one node in the open and closed lists taken     *)
(* together, and a closed city is never in the open list again.           *)
C8_SingleEntry ==
  /\ [](OneEntryPerCity /\ NoDuplicateRefs)
  /\ [][\A c \in ClosedCities : c \in ClosedCities' /\ c \notin OpenCities']_vars

C8_Witness ==
  \E r \in Range(open_list) : \E i, j \in DOMAIN closed_list :
    /\ i # j
    /\ nodes[r].city \in Range(roads(nodes[closed_list[i]].city))
    /\ nodes[r].city \in Range(roads(nodes[closed_list[j]].city))
    /\ ~IsGoal(nodes[closed_list[i]])
    /\ ~IsGoal(nodes[closed_list[j]])

(* C9: the node of start has g = 0 and no parent; every other listed node *)
(* has a parent in the closed list, closed before it, and its g is the    *)
(* parent's g plus the distance between the two cities; the g of the      *)
(* goal node is the cost of the returned path.                            *)
C9_ParentChain ==
  /\ \A r \in listed :
       IF nodes[r].city = start
       THEN nodes[r].g = 0 /\ nodes[r].parent = None
       ELSE LET p == nodes[r].parent
            IN /\ p # None
               /\ p \in Range(closed_list)
               /\ r \in Range(closed_list) => closed_at(p) < closed_at(r)
               /\ nodes[r].g
                    = nodes[p].g + distance_to(nodes[p].city, nodes[r].city)
  /\ pc = "return_path" =>
       nodes[closed_list[Len(closed_list)]].g = PathCost(path)

(* A node found from one explored city and later given another parent. *)
C9_Witness ==
  /\ pc = "return_path"
  /\ \E i \in 2..Len(path) : \E j \in DOMAIN closed_list :
       LET p == CHOOSE r \in Range(closed_list) : nodes[r].city = path[i - 1]
       IN /\ j < closed_at(p)
          /\ ~IsGoal(nodes[closed_list[j]])
          /\ path[i] \in Range(roads(nodes[closed_list[j]].city))

(* C10: before the first iteration the closed list is empty and the open  *)
(* list holds one node, for start, without parent, with g = 0,            *)
(* h = distance(start, goal) and f = h.                                   *)
C10_InitialState ==
  (pc = "while" /\ closed_list = <<>>) =>
    /\ Len(open_list) = 1
    /\ LET n == nodes[open_list[1]]
       IN /\ n.city = start
          /\ n.parent = None
          /\ n.g = 0
          /\ n.h = distance_to(start, goal)
          /\ n.f = n.h

=============================================================================
